---- MODULE Spec2Model ----
(***************************************************************************)
(* A model of libbb/xreadlink.c: xmalloc_readlink, xmalloc_follow_symlinks, *)
(* xmalloc_realpath and xmalloc_realpath_coreutils, run against a small     *)
(* model of a filesystem (directories, files, symbolic links).              *)
(*                                                                         *)
(* A string is a sequence of one-character strings.  A filesystem is a      *)
(* function from nodes (sequences of component names, <<>> is the root) to  *)
(* entries; a name that is no node does not exist.                          *)
(***************************************************************************)
EXTENDS Integers, Sequences, FiniteSets, TLC

VARIABLES
    fs,        \* the filesystem: node -> [kind, target]
    cwd,       \* the current working directory, a node of fs
    mingw,     \* ENABLE_PLATFORM_MINGW32 of the build
    errno,     \* the C library's errno
    op,        \* which function is being run: "readlink", "follow", "coreutils"
    pc,        \* where the run is: "call", "loop", "ret", "done", "fault"
    arg,       \* the text of the caller's path argument
    ret,       \* the returned value: NULL or [str |-> ...]
    scen,      \* the scenario the filesystem was built for (a record)
    buf,       \* follow_symlinks: text of the working buffer
    bufsize,   \* follow_symlinks: the tracked capacity
    looping,   \* follow_symlinks: the hop budget
    hist,      \* follow_symlinks: one record per link read, oldest first
    frames,    \* realpath_coreutils: the active calls, outermost first
    branch,    \* realpath_coreutils: the exit taken by the last completed call
    calls,     \* realpath_coreutils: one record per completed call, oldest first
    diag,      \* the messages handed to bb_error_msg, oldest first
    heap       \* follow_symlinks: the allocator's blocks and the block buf is

vars == <<fs, cwd, mingw, errno, op, pc, arg, ret, scen, buf, bufsize,
          looping, hist, frames, branch, calls, diag, heap>>

-----------------------------------------------------------------------------
(* Bounds of the model *)

MaxTargetLen == 500
MaxChain == 22
MaxErrChain == 2
MaxPathLen == 3
MaxDepth == 3
SymloopMax == 6
PreLen == 2

(* Program constants *)

MAXSYMLINKS == 20
GROWBY == 80

-----------------------------------------------------------------------------
(* Strings *)

NULL == [null |-> TRUE]
Some(s) == [str |-> s]

SLASH == "/"
NUL == "NUL"
JUNK == "JUNK"

Min(a, b) == IF a < b THEN a ELSE b

Tail0(s, k) == SubSeq(s, k + 1, Len(s))

\* strrchr(s, '/') as a 1-based index, 0 when there is none
RECURSIVE strrchr(_)
strrchr(s) ==
    IF s = <<>> THEN 0
    ELSE IF s[Len(s)] = SLASH THEN Len(s)
    ELSE strrchr(SubSeq(s, 1, Len(s) - 1))

\* index of the first '/' of s, Len(s)+1 when there is none
RECURSIVE strchrnul(_)
strchrnul(s) ==
    IF s = <<>> THEN 1
    ELSE IF s[1] = SLASH THEN 1
    ELSE 1 + strchrnul(Tail(s))

RECURSIVE SkipSlashes(_)
SkipSlashes(s) ==
    IF s # <<>> /\ s[1] = SLASH THEN SkipSlashes(Tail(s)) ELSE s

RECURSIVE StripTrailing(_)
StripTrailing(s) ==
    IF s # <<>> /\ s[Len(s)] = SLASH THEN StripTrailing(SubSeq(s, 1, Len(s) - 1))
    ELSE s

\* the text of a node: "/" for the root, "/a/b" for <<a, b>>
RECURSIVE NodeStr(_)
NodeStr(n) ==
    IF n = <<>> THEN <<SLASH>>
    ELSE IF Len(n) = 1 THEN <<SLASH>> \o n[1]
    ELSE NodeStr(SubSeq(n, 1, Len(n) - 1)) \o <<SLASH>> \o n[Len(n)]

-----------------------------------------------------------------------------
(* The platform: path resolution, readlink(2), realpath(3), getcwd(3) *)

Ok(n) == [err |-> "0", node |-> n]
Err(e) == [err |-> e, node |-> <<>>]

Dir == [kind |-> "dir", target |-> <<>>]
File == [kind |-> "file", target |-> <<>>]
Link(t) == [kind |-> "link", target |-> t]
NoSys == [kind |-> "nosys", target |-> <<>>]
Denied == [kind |-> "denied", target |-> <<>>]

KindOf(f, n) == IF n = <<>> THEN "dir" ELSE f[n].kind

\* Resolve text rest from directory cur, following at most n links; the last
\* component is followed when followLast or when a separator follows it.
RECURSIVE Walk(_, _, _, _, _)
Walk(f, cur, rest, n, followLast) ==
    LET r == SkipSlashes(rest) IN
    IF r = <<>> THEN Ok(cur)
    ELSE
      LET k == strchrnul(r)
          c == SubSeq(r, 1, k - 1)
          more == Tail0(r, k - 1)
          node == Append(cur, c)
      IN  IF node \notin DOMAIN f THEN Err("ENOENT")
          ELSE IF f[node].kind = "dir" THEN Walk(f, node, more, n, followLast)
          ELSE IF f[node].kind = "link" THEN
              IF more = <<>> /\ ~followLast THEN Ok(node)
              ELSE IF n = 0 THEN Err("ELOOP")
              ELSE IF f[node].target = <<>> THEN Err("ENOENT")
              ELSE Walk(f, IF f[node].target[1] = SLASH THEN <<>> ELSE cur,
                        f[node].target \o more, n - 1, followLast)
          ELSE IF more = <<>> THEN Ok(node)
          ELSE Err("ENOTDIR")

Resolve(f, d, path, followLast) ==
    IF path = <<>> THEN Err("ENOENT")
    ELSE Walk(f, IF path[1] = SLASH THEN <<>> ELSE d, path, SymloopMax, followLast)

\* readlink(path, buf, bufsize): n = -1 and an errno, or the number of bytes
\* placed in the buffer (the target is cut to bufsize, no terminator is added)
readlink(f, d, path, size) ==
    LET r == Resolve(f, d, path, FALSE) IN
    IF r.err # "0" THEN [n |-> -1, err |-> r.err, data |-> <<>>]
    ELSE LET kind == KindOf(f, r.node) IN
         IF kind = "link" THEN
             LET n == Min(Len(f[r.node].target), size) IN
             [n |-> n, err |-> "0", data |-> SubSeq(f[r.node].target, 1, n)]
         ELSE IF kind = "nosys" THEN [n |-> -1, err |-> "ENOSYS", data |-> <<>>]
         ELSE IF kind = "denied" THEN [n |-> -1, err |-> "EACCES", data |-> <<>>]
         ELSE [n |-> -1, err |-> "EINVAL", data |-> <<>>]

\* realpath(path, NULL)
realpath(f, d, path) ==
    LET r == Resolve(f, d, path, TRUE) IN
    IF r.err # "0" THEN [err |-> r.err, str |-> <<>>]
    ELSE [err |-> "0", str |-> NodeStr(r.node)]

getcwd(d) == NodeStr(d)

-----------------------------------------------------------------------------
(* xmalloc_readlink *)

\* the text of a buffer up to its first terminator
CStr(b) ==
    LET nuls == {i \in 1..Len(b) : b[i] = NUL} IN
    IF nuls = {} THEN b
    ELSE SubSeq(b, 1, (CHOOSE i \in nuls : \A j \in nuls : i <= j) - 1)

\* buf[readsize] = '\0' on a buffer of size bytes holding data: the bytes up
\* to the terminator (those behind it are never read); a terminator beyond
\* the buffer is not part of it
Terminate(data, size, readsize) ==
    [i \in 1..Min(size, readsize + 1) |-> IF i = readsize + 1 THEN NUL ELSE data[i]]

\* the loop test of the do-while: read again with a larger buffer
MustGrowOffByOne(size, readsize) == size < readsize
MustGrow(size, readsize) == size < readsize + 1

\* [err, str, oob]: err = "0" and the text read, or the errno of the failure;
\* oob when the terminator was written outside the buffer.
RECURSIVE ReadlinkLoop(_, _, _, _)
ReadlinkLoop(f, d, path, size) ==
    LET bs == size + GROWBY
        r == readlink(f, d, path, bs)
    IN  IF r.n = -1 THEN [err |-> r.err, str |-> <<>>, oob |-> FALSE]
        ELSE IF MustGrow(bs, r.n) THEN ReadlinkLoop(f, d, path, bs)
        ELSE [err |-> "0", str |-> CStr(Terminate(r.data, bs, r.n)),
              oob |-> r.n + 1 > bs]

xmalloc_readlink(f, d, path) == ReadlinkLoop(f, d, path, 0)

-----------------------------------------------------------------------------
(* Scenarios: the filesystems and arguments the functions are run on *)

Letters == <<"a", "b", "c", "f", "g", "h">>
Digits == <<"0", "1", "2", "3", "4", "5", "6", "7", "8", "9">>

\* the name of the i-th entry of a chain, two characters
Name(i) == <<Letters[((i - 1) \div 10) + 1], Digits[((i - 1) % 10) + 1]>>

DirD == << <<"d">> >>
DirE == << <<"e">> >>
DirDS == << <<"d">>, <<"s">> >>
DirES == << <<"e">>, <<"s">> >>

\* How link i names link i+1: "R" by its bare name, "S" through the
\* subdirectory s, "A" by an absolute path into /e, "D" by one into /d.
Patterns ==
    { <<"R">>, <<"A">>, <<"R", "A">>, <<"S", "R">>, <<"A", "S">>,
      <<"D", "R", "S">> }

Ends == {"file", "missing", "dir", "nosys", "denied", "notdir", "self",
         "cycle", "empty"}

\* the ends that chains of every length are built with; the others, which
\* decide only the outcome of the last link read, end chains of at most
\* MaxErrChain links
LongEnds == {"file", "missing", "self", "cycle"}

RECURSIVE Loc(_, _)
Form(pat, i) ==
    LET fm == pat[((i - 1) % Len(pat)) + 1] IN
    IF fm = "S" /\ Len(Loc(pat, i)) # 1 THEN "R" ELSE fm

\* the directory the i-th entry of the chain lives in
Loc(pat, i) ==
    IF i = 1 THEN DirD
    ELSE LET fm == Form(pat, i - 1)
             prev == Loc(pat, i - 1)
         IN  IF fm = "R" THEN prev
             ELSE IF fm = "S" THEN Append(prev, <<"s">>)
             ELSE IF fm = "A" THEN DirE
             ELSE DirD

ChainNode(pat, i) == Append(Loc(pat, i), Name(i))

\* the text stored in link i, naming entry i+1
ChainTarget(pat, i) ==
    LET fm == Form(pat, i) IN
    IF fm = "R" THEN Name(i + 1)
    ELSE IF fm = "S" THEN <<"s", SLASH>> \o Name(i + 1)
    ELSE NodeStr(ChainNode(pat, i + 1))

Suffix(N, end, i) == IF end = "notdir" /\ i = N THEN <<SLASH, "x">> ELSE <<>>

\* the entry that ends a chain of N links
EndEntry(N, end, pat) ==
    IF end = "file" \/ end = "notdir" THEN File
    ELSE IF end = "dir" THEN Dir
    ELSE IF end = "nosys" THEN NoSys
    ELSE IF end = "denied" THEN Denied
    ELSE IF end = "empty" THEN Link(<<>>)
    ELSE IF end = "self" THEN
        Link(IF Form(pat, N + 1) \in {"A", "D"}
             THEN NodeStr(ChainNode(pat, N + 1)) ELSE Name(N + 1))
    ELSE Link(NodeStr(ChainNode(pat, 1)))

\* /d, /d/s, /e, /e/s, links 1..N each naming the next, and the end entry
ChainFS(N, end, pat) ==
    LET dirs == {DirD, DirE, DirDS, DirES}
        links == {ChainNode(pat, i) : i \in 1..N}
        last == ChainNode(pat, N + 1)
        nodes == dirs \cup links \cup (IF end = "missing" THEN {} ELSE {last})
        idx(n) == CHOOSE i \in 1..N : ChainNode(pat, i) = n
    IN  [n \in nodes |->
            IF n \in dirs THEN Dir
            ELSE IF n = last THEN EndEntry(N, end, pat)
            ELSE Link(ChainTarget(pat, idx(n)) \o Suffix(N, end, idx(n)))]

\* the target of a link of L bytes
LongTarget(L) ==
    [i \in 1..L |-> IF i % 5 = 1 THEN SLASH ELSE IF i % 2 = 0 THEN "a" ELSE "b"]

\* a root holding the link l (L bytes of target), the file f and the directory d
LongFS(L) ==
    [n \in { << <<"l">> >>, << <<"f">> >>, DirD } |->
        IF n = << <<"l">> >> THEN Link(LongTarget(L))
        ELSE IF n = DirD THEN Dir ELSE File]

-----------------------------------------------------------------------------
(* The run of xmalloc_readlink *)

\* The allocator before any allocation: no block live, none released, and buf
\* pointing at no block (block 0 stands for the null pointer).
NoHeap == [live |-> {}, freed |-> {}, next |-> 1, buf |-> 0, bad |-> FALSE]

\* xstrdup, xrealloc(NULL, n): a block never handed out before becomes live;
\* its number is h.next
Alloc(h) == [h EXCEPT !.live = @ \cup {h.next}, !.next = @ + 1]
\* free(b): a live block is released; releasing any other is an error
Free(h, b) ==
    IF b \in h.live THEN [h EXCEPT !.live = @ \ {b}, !.freed = @ \cup {b}]
    ELSE [h EXCEPT !.bad = TRUE]
\* a read or a write of block b: an error unless b is live
Use(h, b) == IF b \in h.live THEN h ELSE [h EXCEPT !.bad = TRUE]
\* buf = xrealloc(buf, n): the block is released and a block of n bytes is
\* handed out, which buf then is
ReallocBuf(h) == [Alloc(Free(h, h.buf)) EXCEPT !.buf = h.next]

Idle ==
    /\ buf = <<>> /\ bufsize = 0 /\ looping = 0 /\ hist = <<>>
    /\ frames = <<>> /\ branch = [exit |-> "none", oob |-> FALSE] /\ ret = NULL
    /\ calls = <<>> /\ diag = <<>> /\ heap = NoHeap

ReadlinkArgs == { <<SLASH, "l">>, <<"l">>, <<SLASH, "f">>, <<SLASH, "x">>, <<>> }

ReadlinkInit ==
    /\ op = "readlink" /\ pc = "call"
    /\ \E L \in 0..MaxTargetLen :
          /\ scen = [kind |-> "long", L |-> L]
          /\ fs = LongFS(L)
    /\ cwd = <<>>
    /\ mingw = FALSE
    /\ errno = "0"
    /\ arg \in ReadlinkArgs
    /\ Idle

\* char *buf = xmalloc_readlink(path): the text, or NULL with errno set; a
\* terminator written outside the buffer is memory corruption
ReadlinkCall ==
    /\ op = "readlink" /\ pc = "call"
    /\ LET r == xmalloc_readlink(fs, cwd, arg) IN
       /\ pc' = IF r.oob THEN "fault" ELSE "done"
       /\ ret' = IF r.err = "0" THEN Some(r.str) ELSE NULL
       /\ errno' = IF r.err = "0" THEN errno ELSE r.err
    /\ UNCHANGED <<calls, diag, heap, fs, cwd, mingw, op, arg, scen, buf,
                   bufsize, looping, hist, frames, branch>>

ReadlinkNext == ReadlinkCall

SpecReadlink == ReadlinkInit /\ [][ReadlinkNext]_vars

(* C7: xmalloc_readlink returns the whole target of a link, whatever its
   length L (0, 80, 160, 500, ...): the call ends without writing outside its
   buffer and the text returned has length L and equals the stored target. *)
C7_ReadlinkComplete ==
    (op = "readlink" /\ pc # "call" /\ arg \in { <<SLASH, "l">>, <<"l">> })
        => /\ pc = "done"
           /\ ret = Some(LongTarget(scen.L))
           /\ Len(ret.str) = scen.L

C7_Witness ==
    /\ op = "readlink" /\ pc = "done" /\ arg = <<SLASH, "l">>
    /\ scen.L = 2 * GROWBY
    /\ ret = Some(LongTarget(2 * GROWBY))

-----------------------------------------------------------------------------
(* xmalloc_follow_symlinks *)

\* is_relative_path(linkpath) of the MINGW32 build, *linkpath != '/' of the
\* others: the two agree on text without drive letters and backslashes
IsRelative(linkpath, w32) == IF linkpath = <<>> THEN TRUE ELSE linkpath[1] # SLASH

\* bb_get_last_path_component_strip(buf): the buffer with its trailing
\* separators cut (never its first byte), and the offset of its last component
StripBuf(b) ==
    IF Len(b) > 1 /\ b[Len(b)] = SLASH
    THEN LET t == StripTrailing(b) IN IF t = <<>> THEN <<SLASH>> ELSE t
    ELSE b

LastComponent(b) ==
    LET s == StripBuf(b)
        k == strrchr(s)
    IN  [text |-> s, lpc |-> IF k = 0 \/ (k = 1 /\ Len(s) = 1) THEN 0 ELSE k]

\* lpc = bb_get_last_path_component_strip(buf); strcpy(lpc, linkpath)
SpliceWhole(b, linkpath) == linkpath
Splice(b, linkpath) ==
    LET l == LastComponent(b) IN SubSeq(l.text, 1, l.lpc) \o linkpath

\* buf = linkpath, after free(buf)
ReplaceKeepsOld(b, linkpath) == StripTrailing(b) \o linkpath
Replace(b, linkpath) == linkpath

\* linkpath = xmalloc_readlink(buf), lines 27-35: buf is read, a block is
\* handed out for the target (block h.next; each further xrealloc of the loop
\* keeps one block live) and released again when the read fails
ReadHeap(h, r) ==
    LET h1 == Alloc(Use(h, h.buf)) IN
    IF r.err = "0" THEN h1 ELSE Free(h1, h.next)

\* line 93 left out: the old buffer is kept when the target replaces it
DropBufForgotten(h) == h
\* free(buf) of lines 78 and 93
DropBuf(h) == Free(h, h.buf)

\* line 87 with the tracked size assigned, not added to
GrowAssigned(size, linkpath) == Len(linkpath)
\* bufsize += strlen(linkpath)
Grow(size, linkpath) == size + Len(linkpath)
\* jump_in: bufsize = strlen(buf) + 1
Tracked(b) == Len(b) + 1

\* the errno values of a failed link read on which buf is returned
ReturnsBufAnyBuild(e, w32) == e = "EINVAL" \/ e = "ENOENT" \/ e = "ENOSYS"
ReturnsBuf(e, w32) == e = "EINVAL" \/ e = "ENOENT" \/ (w32 /\ e = "ENOSYS")

\* if (!--looping)
ExhaustedPostDecrement(l) == l = 0
Exhausted(l) == l - 1 = 0

\* int looping = MAXSYMLINKS + 1
BudgetShort == MAXSYMLINKS
Budget == MAXSYMLINKS + 1

FollowArgs(N, end) ==
    { [cwd |-> <<>>, arg |-> NodeStr(ChainNode(<<"R">>, 1)) \o Suffix(N, end, 0)],
      [cwd |-> DirD, arg |-> Name(1) \o Suffix(N, end, 0)] }

FollowInit ==
    /\ op = "follow" /\ pc = "call"
    /\ \E N \in 0..MaxChain, end \in Ends, pat \in Patterns :
          /\ end \in LongEnds \/ N <= MaxErrChain
          /\ scen = [kind |-> "chain", N |-> N, end |-> end, pat |-> pat]
          /\ fs = ChainFS(N, end, pat)
          /\ \E a \in FollowArgs(N, end) : cwd = a.cwd /\ arg = a.arg
    /\ mingw \in BOOLEAN
    /\ errno \in {"0", "EACCES"}
    /\ Idle

\* buf = xstrdup(path); goto jump_in; bufsize = strlen(buf) + 1
FollowEnter ==
    /\ op = "follow" /\ pc = "call"
    /\ buf' = arg
    /\ heap' = [Alloc(heap) EXCEPT !.buf = heap.next]
    /\ bufsize' = Tracked(buf')
    /\ looping' = Budget
    /\ pc' = "loop"
    /\ UNCHANGED <<calls, diag, fs, cwd, mingw, errno, op, arg, ret, scen,
                   hist, frames, branch>>

\* one record of hist: the buffer the link read was made on, and its outcome
Hop(r) == [cur |-> buf, err |-> r.err, target |-> r.str]

\* linkpath = xmalloc_readlink(buf)
LinkRead == xmalloc_readlink(fs, cwd, buf)

\* the link read fails: return buf, or free it and return NULL
FollowReadFail ==
    /\ op = "follow" /\ pc = "loop"
    /\ LinkRead.err # "0"
    /\ errno' = LinkRead.err
    /\ ret' = IF ReturnsBuf(LinkRead.err, mingw) THEN Some(buf) ELSE NULL
    /\ heap' = IF ReturnsBuf(LinkRead.err, mingw) THEN ReadHeap(heap, LinkRead)
               ELSE DropBuf(ReadHeap(heap, LinkRead))
    /\ hist' = Append(hist, Hop(LinkRead))
    /\ pc' = "done"
    /\ UNCHANGED <<calls, diag, fs, cwd, mingw, op, arg, scen, buf, bufsize,
                   looping, frames, branch>>

\* if (!--looping): free both buffers and return NULL
FollowExhausted ==
    /\ op = "follow" /\ pc = "loop"
    /\ Exhausted(looping)
    /\ LinkRead.err = "0"
    /\ hist' = Append(hist, Hop(LinkRead))
    /\ looping' = looping - 1
    /\ errno' = IF mingw THEN "ELOOP" ELSE errno
    /\ ret' = NULL
    /\ heap' = DropBuf(Free(ReadHeap(heap, LinkRead), heap.next))
    /\ pc' = "done"
    /\ UNCHANGED <<calls, diag, fs, cwd, mingw, op, arg, scen, buf, bufsize,
                   frames, branch>>

\* a relative target: grow the buffer and copy the target over the last component
FollowRelative ==
    /\ op = "follow" /\ pc = "loop"
    /\ ~Exhausted(looping)
    /\ LET r == LinkRead IN
       /\ r.err = "0"
       /\ IsRelative(r.str, mingw)
       /\ bufsize' = Grow(bufsize, r.str)
       /\ buf' = Splice(buf, r.str)
       /\ LET h1 == ReallocBuf(ReadHeap(heap, r))
              h2 == Use(Use(h1, h1.buf), heap.next)
          IN  heap' = Free(h2, heap.next)
       /\ hist' = Append(hist, Hop(r))
    /\ looping' = looping - 1
    /\ UNCHANGED <<calls, diag, fs, cwd, mingw, errno, op, pc, arg, ret, scen,
                   frames, branch>>

\* an absolute target: the target becomes the buffer
FollowAbsolute ==
    /\ op = "follow" /\ pc = "loop"
    /\ ~Exhausted(looping)
    /\ LET r == LinkRead IN
       /\ r.err = "0"
       /\ ~IsRelative(r.str, mingw)
       /\ buf' = Replace(buf, r.str)
       /\ bufsize' = Tracked(buf')
       /\ heap' = [DropBuf(ReadHeap(heap, r)) EXCEPT !.buf = heap.next]
       /\ hist' = Append(hist, Hop(r))
    /\ looping' = looping - 1
    /\ UNCHANGED <<calls, diag, fs, cwd, mingw, errno, op, pc, arg, ret, scen,
                   frames, branch>>

FollowNext ==
    \/ FollowEnter
    \/ FollowReadFail
    \/ FollowExhausted
    \/ FollowRelative
    \/ FollowAbsolute

SpecFollow == FollowInit /\ [][FollowNext]_vars

-----------------------------------------------------------------------------
(* xmalloc_readlink_or_warn *)

\* strerror(3): the system's message for an errno value
strerror(e) ==
    CASE e = "EINVAL" -> "Invalid argument"
      [] e = "ENOENT" -> "No such file or directory"
      [] e = "EACCES" -> "Permission denied"
      [] e = "ENOTDIR" -> "Not a directory"
      [] e = "ENOSYS" -> "Function not implemented"
      [] e = "ELOOP" -> "Too many levels of symbolic links"
      [] OTHER -> "Unknown error"

\* lines 106-109 with the system's message for every errno value
ErrMsgSystem(err) == strerror(err)

\* errmsg = "not a symlink"; if (err != EINVAL) errmsg = strerror(err)
ErrMsg(err) == IF err # "EINVAL" THEN strerror(err) ELSE "not a symlink"

\* bb_error_msg("%s: cannot read link: %s", path, errmsg): the message as
\* handed over, format and arguments
Message(path, errmsg) ==
    [fmt |-> "%s: cannot read link: %s", path |-> path, errmsg |-> errmsg]

\* the errno values left by earlier calls
StaleErrnos == {"0", "EINVAL", "ENOENT", "EACCES"}

\* The argument names the first entry of a chain: a link when the chain has
\* links, else the entry that ends it.
WarnInit ==
    /\ op = "warn" /\ pc = "call"
    /\ \E N \in 0..MaxErrChain, end \in Ends, pat \in Patterns :
          /\ scen = [kind |-> "chain", N |-> N, end |-> end, pat |-> pat]
          /\ fs = ChainFS(N, end, pat)
          /\ \E a \in FollowArgs(N, end) : cwd = a.cwd /\ arg = a.arg
    /\ mingw \in BOOLEAN
    /\ errno \in StaleErrnos
    /\ Idle

\* lines 103-112
WarnCall ==
    /\ op = "warn" /\ pc = "call"
    /\ LET r == xmalloc_readlink(fs, cwd, arg) IN
       /\ ret' = IF r.err = "0" THEN Some(r.str) ELSE NULL
       /\ errno' = IF r.err = "0" THEN errno ELSE r.err
       /\ diag' = IF r.err = "0" THEN diag
                  ELSE Append(diag, Message(arg, ErrMsg(errno')))
    /\ pc' = "done"
    /\ UNCHANGED <<calls, heap, fs, cwd, mingw, op, arg, scen, buf, bufsize,
                   looping, hist, frames, branch>>

WarnNext == WarnCall

SpecWarn == WarnInit /\ [][WarnNext]_vars

\* what xmalloc_readlink makes of the argument
ArgRead == xmalloc_readlink(fs, cwd, arg)

(* C17: xmalloc_readlink_or_warn returns what xmalloc_readlink returns on the
   same path; when that is a text no message is handed to bb_error_msg, and
   when it is NULL exactly one is, naming the path, with "not a symlink" for
   EINVAL and the system's message for any other errno value. *)
C17_WarnForwards ==
    (op = "warn" /\ pc = "done")
        => IF ArgRead.err = "0"
           THEN ret = Some(ArgRead.str) /\ diag = <<>>
           ELSE /\ ret = NULL
                /\ Len(diag) = 1
                /\ diag[1].fmt = "%s: cannot read link: %s"
                /\ diag[1].path = arg
                /\ diag[1].errmsg = IF ArgRead.err = "EINVAL"
                                    THEN "not a symlink"
                                    ELSE strerror(ArgRead.err)

C17_Witness ==
    /\ op = "warn" /\ pc = "done"
    /\ scen.N = 0 /\ scen.end = "file"
    /\ ret = NULL
    /\ errno = "EINVAL"
    /\ diag = << Message(arg, "not a symlink") >>

-----------------------------------------------------------------------------
(* xmalloc_realpath_coreutils, the build without ENABLE_PLATFORM_MINGW32 *)

\* The memory of a call is a sequence of bytes: PreLen bytes that lie before
\* the path argument, the argument's text and its terminator.  Offsets are
\* C offsets from the first byte of the sequence.
Base == PreLen
Byte(m, a) == m[a + 1]
InMem(m, a) == a >= 0 /\ a < Len(m)
Poke(m, a, ch) == [m EXCEPT ![a + 1] = ch]
StrAt(m, p) == CStr(Tail0(m, p))
Memory(pre, text) == pre \o text \o <<NUL>>

\* concat_path_file(path, filename)
concat_path_file(path, filename) ==
    path \o (IF path # <<>> /\ path[Len(path)] = SLASH THEN <<>> ELSE <<SLASH>>)
         \o SkipSlashes(filename)

\* lines 162-176 with the target passed on as read
AbsoluteTargetAsRead(f, d, p, target) == target

\* the target made absolute: lines 162-176
AbsoluteTarget(f, d, p, target) ==
    IF IsRelative(target, FALSE)
    THEN concat_path_file(getcwd(d), target)
    ELSE target

\* line 211 left out: the path keeps its doubled leading separators
SkipLeadingNot(m, p) == p

\* while (path[0] == '/' && path[1] == '/') ++path
RECURSIVE SkipLeading(_, _)
SkipLeading(m, p) ==
    IF Byte(m, p) = SLASH /\ Byte(m, p + 1) = SLASH THEN SkipLeading(m, p + 1)
    ELSE p

\* i = strlen(path) - 1; while (i > 0 && path[i] == '/') i--;
\* i is a size_t: below 0 it stands for the wrapped value, which is > 0, and
\* path[i] is then a byte before the argument.  fault: the read left the
\* memory modelled.
RECURSIVE TrailScan(_, _, _)
TrailScan(m, p, i) ==
    IF i = 0 THEN [i |-> 0, fault |-> FALSE]
    ELSE IF ~InMem(m, p + i) THEN [i |-> i, fault |-> TRUE]
    ELSE IF Byte(m, p + i) = SLASH THEN TrailScan(m, p, i - 1)
    ELSE [i |-> i, fault |-> FALSE]

\* path[i + 1] = c
RestoreEndForgotten(m, a, c) == m
RestoreEnd(m, a, c) == Poke(m, a, c)

\* *last_slash++ = '/'
RestoreSlashForgotten(m, a) == m
RestoreSlash(m, a) == Poke(m, a, SLASH)

\* lines 228-231 with the separator left out
AttachLeafBare(resolved, leaf) == resolved \o leaf

\* buf[len++] = '/'; strcpy(buf + len, last_slash)
AttachLeaf(resolved, leaf) == resolved \o <<SLASH>> \o leaf

\* lines 211-235 on memory m: [exit, buf, m, err, oob]
SplitPath(f, d, m) ==
    LET p == SkipLeading(m, Base)
        n == Len(StrAt(m, p))
        sc == TrailScan(m, p, n - 1)
        e == p + sc.i + 1
        c == Byte(m, e)
        m1 == Poke(m, e, NUL)
        text == StrAt(m1, p)
        ls == strrchr(text)
    IN  IF sc.fault
        THEN [exit |-> "fault", buf |-> NULL, m |-> m, err |-> "0", oob |-> TRUE]
        ELSE IF ls = 1
        THEN [exit |-> "root_leaf", buf |-> Some(text), m |-> RestoreEnd(m1, e, c),
              err |-> "0", oob |-> sc.i < 0]
        ELSE IF ls # 0
        THEN LET m2 == Poke(m1, p + ls - 1, NUL)
                 rp == realpath(f, d, StrAt(m2, p))
                 m3 == RestoreSlash(m2, p + ls - 1)
                 leaf == StrAt(m3, p + ls)
             IN  [exit |-> IF rp.err = "0" THEN "split_ok" ELSE "split_fail",
                  buf |-> IF rp.err = "0" THEN Some(AttachLeaf(rp.str, leaf)) ELSE NULL,
                  m |-> RestoreEnd(m3, e, c), err |-> rp.err, oob |-> sc.i < 0]
        ELSE [exit |-> "nosep", buf |-> NULL, m |-> RestoreEnd(m1, e, c),
              err |-> "0", oob |-> sc.i < 0]

Top == frames[Len(frames)]
TopPath == StrAt(Top.m, Base)
SetTop(m) == [frames EXCEPT ![Len(frames)] = [@ EXCEPT !.m = m]]
Exit(e, oob) == [exit |-> e, oob |-> oob]

\* buf = xmalloc_realpath(path) of line 138
Strict == realpath(fs, cwd, TopPath)
\* target = xmalloc_readlink(path) of line 150
TargetRead == xmalloc_readlink(fs, cwd, TopPath)

\* line 146 with the fallback entered whatever the strict canonicalizer returned
FallsBackAlways(r) == TRUE

\* line 146: if (!buf && errno == ENOENT): the strict canonicalizer returned no
\* path and the reason is a missing component
FallsBack(r) == r.err # "0" /\ r.err = "ENOENT"

\* One record of the call log: the path a call was given, what it returned, the
\* exit it took and the errno it left.
Call(path, r, e, err) == [path |-> path, ret |-> r, exit |-> e, err |-> err]
EntryPath(f) == StrAt(f.entry, Base)

\* lines 137-146: the strict canonicalizer succeeds, or fails with an errno
\* other than ENOENT: return what it returned
CuStrict ==
    /\ op = "coreutils" /\ pc = "call"
    /\ ~FallsBack(Strict)
    /\ errno' = Strict.err
    /\ ret' = IF Strict.err = "0" THEN Some(Strict.str) ELSE NULL
    /\ branch' = Exit(IF Strict.err = "0" THEN "strict_ok" ELSE "strict_err", FALSE)
    /\ pc' = "ret"
    /\ calls' = Append(calls, Call(EntryPath(Top), ret', branch'.exit, errno'))
    /\ UNCHANGED <<diag, heap, fs, cwd, mingw, op, arg, scen, buf, bufsize,
                   looping, hist, frames>>

\* lines 150-177: the path is a link: call xmalloc_realpath_coreutils on its
\* target, made absolute
CuDangling ==
    /\ op = "coreutils" /\ pc = "call"
    /\ FallsBack(Strict)
    /\ TargetRead.err = "0"
    /\ Len(frames) < MaxDepth
    /\ LET t == AbsoluteTarget(fs, cwd, TopPath, TargetRead.str)
           m == Memory([i \in 1..PreLen |-> JUNK], t)
       IN  frames' = Append(frames, [m |-> m, entry |-> m])
    /\ errno' = "ENOENT"
    /\ UNCHANGED <<calls, diag, heap, fs, cwd, mingw, op, pc, arg, ret, scen,
                   buf, bufsize, looping, hist, branch>>

\* lines 178-179: free(target); return buf
CuReturn ==
    /\ op = "coreutils" /\ pc = "ret"
    /\ Len(frames) > 1
    /\ frames' = SubSeq(frames, 1, Len(frames) - 1)
    /\ branch' = Exit("dangling", FALSE)
    /\ calls' = Append(calls, Call(EntryPath(frames[Len(frames) - 1]), ret,
                                   "dangling", errno))
    /\ UNCHANGED <<diag, heap, fs, cwd, mingw, errno, op, pc, arg, ret, scen,
                   buf, bufsize, looping, hist>>

\* lines 211-238: the path is no link: split it at its last separator
CuSplit ==
    /\ op = "coreutils" /\ pc = "call"
    /\ FallsBack(Strict)
    /\ TargetRead.err # "0"
    /\ LET r == SplitPath(fs, cwd, Top.m) IN
       /\ pc' = IF r.exit = "fault" THEN "fault" ELSE "ret"
       /\ ret' = r.buf
       /\ frames' = SetTop(r.m)
       /\ errno' = IF r.err = "0" THEN TargetRead.err ELSE r.err
       /\ branch' = Exit(r.exit, r.oob)
       /\ calls' = IF r.exit = "fault" THEN calls
                   ELSE Append(calls, Call(EntryPath(Top), ret', r.exit, errno'))
    /\ UNCHANGED <<diag, heap, fs, cwd, mingw, op, arg, scen, buf, bufsize,
                   looping, hist>>

\* the outermost call has returned
CuDone ==
    /\ op = "coreutils" /\ pc = "ret"
    /\ Len(frames) = 1
    /\ pc' = "done"
    /\ UNCHANGED <<calls, diag, heap, fs, cwd, mingw, errno, op, arg, ret,
                   scen, buf, bufsize, looping, hist, frames, branch>>

CuNext ==
    \/ CuStrict
    \/ CuDangling
    \/ CuReturn
    \/ CuSplit
    \/ CuDone

\* Small filesystems: /a and /b are nothing, a directory, a file or a link;
\* under a directory /a, b is nothing, a file or a link and a is nothing or a
\* directory.
Absent == [kind |-> "none", target |-> <<>>]

SmallTargets ==
    { <<"a">>, <<"b">>, <<SLASH, "a">>, <<SLASH>>, <<"a", SLASH, "b">>,
      <<SLASH, "a", SLASH, "b">> }

SmallLinks == {Link(t) : t \in SmallTargets}

NodeA == << <<"a">> >>
NodeB == << <<"b">> >>
NodeAB == << <<"a">>, <<"b">> >>
NodeAA == << <<"a">>, <<"a">> >>

SmallFS(ea, eb, eab, eaa) ==
    LET all == [n \in {NodeA, NodeB, NodeAB, NodeAA} |->
                   IF n = NodeA THEN ea ELSE IF n = NodeB THEN eb
                   ELSE IF n = NodeAB THEN eab ELSE eaa]
    IN  [n \in {x \in DOMAIN all : all[x] # Absent} |-> all[n]]

\* every text of at most n bytes over '/', 'a', 'b'
RECURSIVE Texts(_)
Texts(n) ==
    IF n = 0 THEN { <<>> }
    ELSE LET shorter == Texts(n - 1) IN
         shorter \cup {Append(t, ch) : t \in shorter, ch \in {SLASH, "a", "b"}}

\* some longer arguments: trailing and doubled separators around two components
LongerArgs ==
    { <<"a", SLASH, "b", SLASH>>, <<SLASH, "a", SLASH, "b">>,
      <<SLASH, "a", SLASH, "b", SLASH, SLASH>>, <<SLASH, SLASH, "b", SLASH>>,
      <<SLASH, SLASH, "a", SLASH, SLASH, "b">>, <<"b", SLASH, "a", SLASH, "b">> }

\* the bytes before the argument: any mix of '/' and other bytes before a
\* text of at most one byte, other bytes before a longer one
PreBytes(text) ==
    IF Len(text) <= 1 THEN [1..PreLen -> {SLASH, JUNK}]
    ELSE {[i \in 1..PreLen |-> JUNK]}

CuInit ==
    /\ op = "coreutils" /\ pc = "call"
    /\ \E ea \in {Absent, Dir, File} \cup SmallLinks,
          eb \in {Absent, Dir, File} \cup SmallLinks,
          eab \in {Absent, File} \cup SmallLinks,
          eaa \in {Absent, Dir} :
          /\ ea # Dir => (eab = Absent /\ eaa = Absent)
          /\ fs = SmallFS(ea, eb, eab, eaa)
          /\ cwd \in {<<>>} \cup (IF ea = Dir THEN {NodeA} ELSE {})
    /\ scen = [kind |-> "small"]
    /\ arg \in Texts(MaxPathLen) \cup LongerArgs
    /\ \E pre \in PreBytes(arg) :
          frames = << [m |-> Memory(pre, arg), entry |-> Memory(pre, arg)] >>
    /\ mingw = FALSE
    /\ errno = "0"
    /\ buf = <<>> /\ bufsize = 0 /\ looping = 0 /\ hist = <<>>
    /\ branch = Exit("none", FALSE) /\ ret = NULL
    /\ calls = <<>> /\ diag = <<>> /\ heap = NoHeap

SpecCoreutils == CuInit /\ [][CuNext]_vars

-----------------------------------------------------------------------------
(* Every run of the four functions *)

Init == ReadlinkInit \/ FollowInit \/ WarnInit \/ CuInit

Next == ReadlinkNext \/ FollowNext \/ WarnNext \/ CuNext

Spec == Init /\ [][Next]_vars

-----------------------------------------------------------------------------
(* Claims about xmalloc_follow_symlinks *)

\* the components of a text, in order
RECURSIVE Components(_)
Components(s) ==
    LET r == SkipSlashes(s) IN
    IF r = <<>> THEN <<>>
    ELSE LET k == strchrnul(r) IN
         <<SubSeq(r, 1, k - 1)>> \o Components(Tail0(r, k - 1))

\* the node a text names when no component of it is a link
Denotes(s) ==
    (IF s # <<>> /\ s[1] = SLASH THEN <<>> ELSE cwd) \o Components(s)

\* the text of s up to and including its last separator
DirPrefix(s) == SubSeq(s, 1, strrchr(s))

LastHop == hist[Len(hist)]
OkReads == {i \in 1..Len(hist) : hist[i].err = "0"}

(* C4: on a chain of N trailing links that ends in a file, a directory or a
   missing name, xmalloc_follow_symlinks returns a path naming the end of the
   chain when N <= MAXSYMLINKS and returns NULL when N > MAXSYMLINKS, for
   every mix of absolute and relative targets. *)
C4_ChainBound ==
    (op = "follow" /\ pc = "done" /\ scen.end \in {"file", "dir", "missing"})
        => IF scen.N <= MAXSYMLINKS
           THEN /\ ret # NULL
                /\ Denotes(ret.str) = ChainNode(scen.pat, scen.N + 1)
           ELSE ret = NULL

C4_Witness ==
    /\ op = "follow" /\ pc = "done"
    /\ scen.end = "file" /\ scen.N = MAXSYMLINKS /\ scen.pat = <<"D", "R", "S">>
    /\ ret # NULL
    /\ Cardinality(OkReads) = MAXSYMLINKS

(* C5: xmalloc_follow_symlinks returns on every filesystem, cycles included:
   the hop budget starts at MAXSYMLINKS + 1 and is MAXSYMLINKS + 1 less the
   number of successful link reads, so no call makes more than
   MAXSYMLINKS + 1 link reads: the budget is at least 1 at every link read,
   and the call returns at the first failed read or at read MAXSYMLINKS + 1. *)
C5_Budget ==
    op = "follow" =>
        /\ Len(hist) <= MAXSYMLINKS + 1
        /\ pc # "call" => looping = MAXSYMLINKS + 1 - Cardinality(OkReads)
        /\ pc = "loop" => (looping >= 1 /\ Len(hist) <= MAXSYMLINKS)
        /\ pc = "done" => \/ LastHop.err # "0"
                           \/ (looping = 0 /\ Len(hist) = MAXSYMLINKS + 1)

C5_Witness ==
    /\ op = "follow" /\ pc = "done"
    /\ scen.end = "self" /\ scen.N = 0
    /\ ret = NULL
    /\ Len(hist) = MAXSYMLINKS + 1

(* C6: when xmalloc_follow_symlinks fails because the hop budget reached
   zero, errno is ELOOP, on every build. *)
C6_ExhaustedIsELOOP ==
    (op = "follow" /\ pc = "done" /\ looping = 0) => errno = "ELOOP"

(* C8: after a hop whose target is relative, the buffer is the text the link
   read was made on up to and including its last separator (nothing when it
   has none), followed by the target. *)
C8_RelativeSplice ==
    (op = "follow" /\ pc = "loop" /\ hist # <<>>)
        => (IsRelative(LastHop.target, mingw)
               => buf = DirPrefix(LastHop.cur) \o LastHop.target)

C8_Witness ==
    /\ op = "follow" /\ pc = "loop" /\ hist # <<>>
    /\ LastHop.cur = NodeStr(ChainNode(<<"S">>, 1))
    /\ LastHop.target = <<"s", SLASH>> \o Name(2)
    /\ buf = NodeStr(DirDS) \o <<SLASH>> \o Name(2)

(* C9: after a hop whose target is absolute the buffer is the target text,
   and a relative hop that follows it is spliced against that target. *)
C9_AbsoluteReplaces ==
    (op = "follow" /\ pc = "loop" /\ hist # <<>>)
        => /\ ~IsRelative(LastHop.target, mingw) => buf = LastHop.target
           /\ (/\ Len(hist) >= 2
               /\ ~IsRelative(hist[Len(hist) - 1].target, mingw)
               /\ IsRelative(LastHop.target, mingw))
              => buf = DirPrefix(hist[Len(hist) - 1].target) \o LastHop.target

C9_Witness ==
    /\ op = "follow" /\ pc = "loop" /\ Len(hist) = 2
    /\ arg = Name(1)
    /\ hist[1].target = NodeStr(DirE) \o <<SLASH>> \o Name(2)
    /\ hist[2].target = <<"s", SLASH>> \o Name(3)
    /\ buf = NodeStr(DirES) \o <<SLASH>> \o Name(3)

(* C10 as claimed: a link read that fails with EINVAL, ENOENT or ENOSYS makes
   the call return the buffer unchanged, any other failure makes it return
   NULL. *)
C10_AnyBuild ==
    (op = "follow" /\ pc = "done" /\ hist # <<>> /\ LastHop.err # "0")
        => IF LastHop.err \in {"EINVAL", "ENOENT", "ENOSYS"}
           THEN ret = Some(LastHop.cur)
           ELSE ret = NULL

(* C10 as amended: EINVAL and ENOENT on every build, and ENOSYS on the MINGW32
   build only, make the call return the buffer unchanged (the argument itself
   when no hop was made); every other failure, ENOSYS on the other builds
   included, makes it return NULL. *)
C10_PerBuild ==
    (op = "follow" /\ pc = "done" /\ hist # <<>> /\ LastHop.err # "0")
        => IF \/ LastHop.err \in {"EINVAL", "ENOENT"}
              \/ (mingw /\ LastHop.err = "ENOSYS")
           THEN /\ ret = Some(LastHop.cur)
                /\ Len(hist) = 1 => ret = Some(arg)
           ELSE ret = NULL

C10_Witness ==
    /\ op = "follow" /\ pc = "done" /\ hist # <<>>
    /\ LastHop.err = "ENOSYS" /\ ~mingw
    /\ Len(hist) = 2
    /\ ret = NULL

-----------------------------------------------------------------------------
(* Claims about xmalloc_realpath_coreutils *)

FramePath(i) == StrAt(frames[i].m, Base)

(* C1: xmalloc_realpath_coreutils never calls itself on a path that one of
   its active calls was already made on (with the filesystem and the working
   directory fixed, such a call repeats without end). *)
C1_NoRevisit ==
    op = "coreutils" =>
        \A i, j \in 1..Len(frames) : i < j => FramePath(i) # FramePath(j)

\* the argument without its trailing separators, its leaf and its parent
ArgTrimmed == StripTrailing(arg)
ArgLeaf == Tail0(ArgTrimmed, strrchr(ArgTrimmed))
ArgParent ==
    IF DirPrefix(ArgTrimmed) = <<>> THEN Ok(cwd)
    ELSE Resolve(fs, cwd, DirPrefix(ArgTrimmed), TRUE)

\* the parent of the argument is a directory, in which its leaf is no entry
LeafMissing ==
    /\ ArgLeaf # <<>>
    /\ ArgParent.err = "0"
    /\ KindOf(fs, ArgParent.node) = "dir"
    /\ Append(ArgParent.node, ArgLeaf) \notin DOMAIN fs

(* C2: for an argument whose parent directory exists and whose leaf is
   neither an entry nor a link, xmalloc_realpath_coreutils returns the
   canonical path of the parent joined with the leaf. *)
C2_ParentJoinLeaf ==
    (op = "coreutils" /\ pc = "done" /\ LeafMissing)
        => ret = Some(concat_path_file(NodeStr(ArgParent.node), ArgLeaf))

(* C3: when a call of xmalloc_realpath_coreutils returns, the bytes of its
   path argument (and the bytes around it) are what they were when it was
   called, whichever exit it took; the same holds of every call still
   active. *)
C3_ArgumentRestored ==
    (op = "coreutils" /\ pc \in {"ret", "done"})
        => \A i \in 1..Len(frames) : frames[i].m = frames[i].entry

C3_Witness ==
    /\ op = "coreutils" /\ pc = "done"
    /\ arg = <<"a", SLASH, "b", SLASH>>
    /\ branch.exit = "split_ok"
    /\ ret = Some(<<SLASH, "a", SLASH, "b">>)
    /\ Top.m = Top.entry

\* what the strict canonicalizer makes of the argument
ArgStrict == realpath(fs, cwd, arg)

(* C11: whenever the strict canonicalizer succeeds on the argument,
   xmalloc_realpath_coreutils returns the path it produced, and it does so at
   its first exit: the call log holds that one call only (no link was read, no
   call made on a link target), and the argument was neither split nor
   written to. *)
C11_StrictAgrees ==
    (op = "coreutils" /\ pc = "done" /\ ArgStrict.err = "0")
        => /\ ret = Some(ArgStrict.str)
           /\ calls = << Call(arg, ret, "strict_ok", "0") >>
           /\ Len(frames) = 1
           /\ Top.m = Top.entry

C11_Witness ==
    /\ op = "coreutils" /\ pc = "done"
    /\ arg = <<"b">>
    /\ KindOf(fs, <<"b">>) = "link"
    /\ ArgStrict.err = "0"
    /\ ret = Some(<<SLASH, "a">>)
    /\ branch.exit = "strict_ok"

\* the path names a link, and the text that link holds
NamesLink(P) ==
    LET r == Resolve(fs, cwd, P, FALSE) IN
    r.err = "0" /\ KindOf(fs, r.node) = "link"
LinkText(P) == fs[Resolve(fs, cwd, P, FALSE).node].target
\* the link's text if it starts with a separator, else the working directory
\* joined with it
Delegate(P) ==
    IF LinkText(P) # <<>> /\ LinkText(P)[1] = SLASH THEN LinkText(P)
    ELSE concat_path_file(getcwd(cwd), LinkText(P))

(* C12: a completed call of xmalloc_realpath_coreutils on a path P that the
   strict canonicalizer fails on with ENOENT and that names a link took the
   link exit, never the parent split; and every call that took the link exit
   was preceded in the call log by the call it made, which was on the link's
   target (as read if absolute, joined with the working directory if
   relative), and returned exactly what that call returned. *)
C12_DanglingDelegates ==
    op = "coreutils" =>
        \A k \in 1..Len(calls) :
            LET P == calls[k].path IN
            /\ (realpath(fs, cwd, P).err = "ENOENT" /\ NamesLink(P))
                   => calls[k].exit = "dangling"
            /\ calls[k].exit = "dangling"
                   => /\ NamesLink(P)
                      /\ k > 1
                      /\ calls[k - 1].path = Delegate(P)
                      /\ calls[k].ret = calls[k - 1].ret

C12_Witness ==
    /\ op = "coreutils" /\ pc = "done"
    /\ cwd = NodeA
    /\ arg = <<"b">>
    /\ Len(calls) = 2
    /\ calls[2].exit = "dangling"
    /\ LinkText(arg) = <<"a">>
    /\ calls[1].path = <<SLASH, "a", SLASH, "a">>
    /\ calls[1].exit = "split_ok"
    /\ ret = Some(<<SLASH, "a", SLASH, "a">>)

\* a path with its doubled leading separators reduced to one and its trailing
\* separators dropped; the text before its last separator and the text after
Normal(P) ==
    StripTrailing(IF SkipSlashes(P) = P THEN P ELSE <<SLASH>> \o SkipSlashes(P))
PrefixOf(P) == SubSeq(Normal(P), 1, strrchr(Normal(P)) - 1)
LeafOf(P) == Tail0(Normal(P), strrchr(Normal(P)))

(* C13: a completed call of xmalloc_realpath_coreutils that split its path at
   the last separator resolved the text before that separator with the strict
   canonicalizer and nothing else: if that fails, the call returns NULL and
   errno is the strict canonicalizer's; otherwise it returns the canonical
   prefix, a separator and the leaf. *)
C13_PrefixStrict ==
    op = "coreutils" =>
        \A k \in 1..Len(calls) :
            calls[k].exit \in {"split_ok", "split_fail"} =>
                LET P == calls[k].path
                    rp == realpath(fs, cwd, PrefixOf(P))
                IN  /\ strrchr(Normal(P)) > 1
                    /\ IF rp.err = "0"
                       THEN /\ calls[k].exit = "split_ok"
                            /\ calls[k].ret =
                                   Some(rp.str \o <<SLASH>> \o LeafOf(P))
                       ELSE /\ calls[k].exit = "split_fail"
                            /\ calls[k].ret = NULL
                            /\ calls[k].err = rp.err

C13_Witness ==
    /\ op = "coreutils" /\ pc = "done"
    /\ arg = <<"a", SLASH, "b">>
    /\ cwd = <<>>
    /\ NodeA \notin DOMAIN fs
    /\ calls = << Call(arg, NULL, "split_fail", "ENOENT") >>
    /\ ret = NULL /\ errno = "ENOENT"

\* the argument is separators, a leaf without separator, and maybe separators
RootLeaf == StripTrailing(SkipSlashes(arg))
RootLeafShape ==
    /\ SkipSlashes(arg) # arg
    /\ RootLeaf # <<>>
    /\ strrchr(RootLeaf) = 0

(* C14: for an argument made of one or more leading separators, a leaf
   without separator and zero or more trailing separators, whose leaf is no
   entry of the root directory (so neither exists nor is a link),
   xmalloc_realpath_coreutils returns exactly one separator followed by the
   leaf. *)
C14_RootLeaf ==
    (op = "coreutils" /\ pc = "done" /\ RootLeafShape
                      /\ <<RootLeaf>> \notin DOMAIN fs)
        => /\ ret = Some(<<SLASH>> \o RootLeaf)
           /\ branch.exit = "root_leaf"

C14_Witness ==
    /\ op = "coreutils" /\ pc = "done"
    /\ arg = <<SLASH, SLASH, "b", SLASH>>
    /\ NodeB \notin DOMAIN fs
    /\ ret = Some(<<SLASH, "b">>)
    /\ branch.exit = "root_leaf"

(* C16: in the splitting code of xmalloc_realpath_coreutils every byte read
   or written lies within the path argument, its terminator included: the
   scan for trailing separators, which starts at strlen(path) - 1, reads no
   byte before the argument, whatever the argument's length. *)
C16_IndicesInBounds ==
    op = "coreutils" => (~branch.oob /\ pc # "fault")

-----------------------------------------------------------------------------
(* Claims about the buffers of xmalloc_follow_symlinks *)

\* the successful link reads whose target was relative, and absolute
RelativeHops ==
    {i \in OkReads : IsRelative(hist[i].target, mingw)}
AbsoluteHops == OkReads \ RelativeHops

(* C15: in xmalloc_follow_symlinks, at every link read (whatever hops came
   before) the tracked size of the buffer is at least the length of its text
   plus one for the terminator; and the copy made by a relative hop, which
   starts behind the last separator of the text and writes the target and its
   terminator, ends within the tracked size. *)
C15_TrackedCapacity ==
    (op = "follow" /\ pc = "loop")
        => /\ bufsize >= Len(buf) + 1
           /\ (hist # <<>> /\ IsRelative(LastHop.target, mingw))
                 => Len(DirPrefix(LastHop.cur)) + Len(LastHop.target) + 1
                        <= bufsize

C15_Witness ==
    /\ op = "follow" /\ pc = "loop"
    /\ Cardinality(AbsoluteHops) >= 1
    /\ Cardinality(RelativeHops) >= 2
    /\ IsRelative(LastHop.target, mingw)
    /\ Len(LastHop.target) > Len(LastHop.cur) - Len(DirPrefix(LastHop.cur))
    /\ bufsize > Len(buf) + 1

(* C18: in xmalloc_follow_symlinks no block is released twice and none is
   read or written after its release; while the loop runs the only live block
   is the buffer; and when the call has returned, every block it was handed
   is released, except the returned buffer when it returns one. *)
C18_BuffersReleasedOnce ==
    op = "follow" =>
        /\ ~heap.bad
        /\ heap.live \cap heap.freed = {}
        /\ heap.live \cup heap.freed = 1..(heap.next - 1)
        /\ pc = "loop" => heap.live = {heap.buf}
        /\ pc = "done" =>
              heap.live = (IF ret = NULL THEN {} ELSE {heap.buf})

C18_Witness ==
    /\ op = "follow" /\ pc = "done"
    /\ Cardinality(AbsoluteHops) >= 2
    /\ Cardinality(RelativeHops) >= 2
    /\ ret = NULL /\ looping = 0
    /\ heap.live = {}
    /\ Cardinality(heap.freed) > Budget + 1

====
